---- MODULE Spec2Model ----
(***************************************************************************)
(* Model of the GroupMe downloader: the `download` command of main.rs,     *)
(* Client::get_all_groups and the message stream of Client::get_messages   *)
(* (client.rs), with GroupMessagesPage::next_page_before_id (model.rs).    *)
(*                                                                         *)
(* A message is a record [id, created_at]; the identifier of a message is  *)
(* its position in the chat history (newest first), so identifiers are     *)
(* unique.  Timestamps are integers and are only ever compared.            *)
(***************************************************************************)
EXTENDS Integers, Sequences, FiniteSets, TLC

\* ---------------------------------------------------------------- bounds
MaxTime == 3        \* timestamps range over 0..MaxTime
MaxLen == 3         \* longest chat history
MaxPage == 2        \* largest page the message endpoint returns
MaxSrcGroups == 1   \* most groups of the account in a download run
MaxGroups == 112    \* most groups of the account in the listing runs

\* ------------------------------------------------------- program constants
PerPage == 10       \* ("per_page", Some(10))
GroupCap == 100     \* groups.len() > 100
SleepSecs == 1      \* Duration::from_secs(1)

None == 0           \* Option::None of before_id (identifiers are >= 1)
NoDate == 0 - 1     \* start_date / end_date not bound yet

VARIABLES
    pc,             \* position of main's Download arm
    err,            \* the error main returned, "" when none
    srcGroups,      \* number of groups the account has (server side)
    groups,         \* get_all_groups: the accumulator, then main's `groups`
    page,           \* get_all_groups: the page counter
    groupPages,     \* log: the page numbers requested from /groups
    group_idx,      \* main: the selected group, 0 before the selection
    history,        \* the selected group's messages, newest first (server side)
    start_date,     \* main: start of the window (oldest)
    end_date,       \* main: end of the window (newest)
    st,             \* position of the try_stream! generator
    before_id,      \* get_messages: the cursor
    messages_page,  \* get_messages: the page being iterated
    idx,            \* get_messages: position of the for loop in the page
    delivered,      \* log: the items main received from messages.next()
    fetches,        \* log: every page fetch started: its cursor and when it started
    pages,          \* log: the pages the message endpoint returned
    inFlight,       \* number of page fetches awaiting their response
    sleeps,         \* log: every rate-limit sleep started
    sleepsDone,     \* log: number of rate-limit sleeps that elapsed
    sleepLeft,      \* seconds the running sleep still has to wait
    sinceFetch      \* seconds since the last page fetch started, capped at SleepSecs

vars == <<pc, err, srcGroups, groups, page, groupPages, group_idx, history,
          start_date, end_date, st, before_id, messages_page, idx, delivered,
          fetches, pages, inFlight, sleeps, sleepsDone, sleepLeft,
          sinceFetch>>

groupVars == <<groups, page, groupPages>>
streamVars == <<st, before_id, messages_page, idx, delivered, fetches,
                pages, inFlight, sleeps, sleepsDone>>
timeVars == <<sleepLeft, sinceFetch>>
dateVars == <<start_date, end_date>>
envVars == <<srcGroups, history>>

\* ------------------------------------------------------------- helpers
Min(a, b) == IF a < b THEN a ELSE b
Max(a, b) == IF a > b THEN a ELSE b
Last(s) == s[Len(s)]

RECURSIVE Flatten(_)
Flatten(ss) == IF ss = <<>> THEN <<>> ELSE Head(ss) \o Flatten(Tail(ss))

\* All sequences over S of length at most n.
SeqsUpTo(S, n) == UNION {[1..k -> S] : k \in 0..n}

\* A chat history: timestamps in any order, identifiers = positions.
Histories ==
    {[i \in 1..Len(ts) |-> [id |-> i, created_at |-> ts[i]]] :
        ts \in SeqsUpTo(0..MaxTime, MaxLen)}

\* ------------------------------------------------- the server (collaborator)
\* GET /groups?per_page=10&page=p: the p-th block of PerPage group identifiers.
GroupsResponse(p) ==
    LET first == (p - 1) * PerPage
        n == Max(0, Min(PerPage, srcGroups - first))
    IN [i \in 1..n |-> first + i]

\* GET /groups/{id}/messages?limit=100&before_id=c: n messages strictly older
\* than the cursor c (from the newest when c is None).
GroupMessagesPage(c, n) == SubSeq(history, c + 1, c + n)

\* The page sizes the endpoint may answer with: empty only at the end of history.
PageSizes(c) ==
    IF Len(history) - c <= 0 THEN {0} ELSE 1..Min(MaxPage, Len(history) - c)

\* ------------------------------------------------------------ model.rs
\* GroupMessagesPage::next_page_before_id: the id of the last message, if any.
\* (variant: the id of the first message)
next_page_before_id_first(p) == IF p = <<>> THEN None ELSE p[1].id
next_page_before_id(p) == IF p = <<>> THEN None ELSE Last(p).id

\* ------------------------------------------------- client.rs: get_all_groups
\* `if groups.len() > 100 { break; }` (variant: stops on reaching the cap)
GroupsCapReachedAt(n) == n >= GroupCap
GroupsCapReached(n) == n > GroupCap

\* The top of the loop: the request of page `page` is sent and get_all_groups
\* is suspended at `.await` until the answer is there.
GetAllGroupsRequest ==
    /\ pc = "groups"
    /\ groupPages' = Append(groupPages, page)
    /\ pc' = "groups_wait"
    /\ UNCHANGED <<err, groups, page, group_idx, dateVars, streamVars, timeVars,
                   envVars>>

\* Resumed with the decoded response: the rest of the iteration.
GetAllGroupsPage ==
    /\ pc = "groups_wait"
    /\ LET response == GroupsResponse(page)
       IN /\ groupPages' = groupPages
          /\ IF response = <<>>
             THEN /\ pc' = "select"
                  /\ UNCHANGED <<groups, page>>
             ELSE /\ page' = page + 1
                  /\ groups' = groups \o response
                  /\ pc' = IF GroupsCapReached(Len(groups')) THEN "select" ELSE "groups"
    /\ UNCHANGED <<err, group_idx, dateVars, streamVars, timeVars, envVars>>

\* Resumed with a failed request or decoding: `.await?` returns the error,
\* the accumulator is dropped.
GetAllGroupsError ==
    /\ pc = "groups_wait"
    /\ groupPages' = groupPages
    /\ groups' = <<>>
    /\ pc' = "failed"
    /\ err' = "groups"
    /\ UNCHANGED <<page, group_idx, dateVars, streamVars, timeVars, envVars>>

\* ------------------------------------------------- main.rs: Download arm
\* cache.read_config(): the configuration is present, or main bails.
ReadConfig ==
    /\ pc = "config"
    /\ \/ /\ pc' = "groups"
          /\ err' = err
       \/ /\ pc' = "failed"
          /\ err' = "config"
    /\ UNCHANGED <<groupVars, group_idx, dateVars, streamVars, timeVars, envVars>>

\* Select::interact(): an index into the listed groups, or an error (no item
\* to select, or the prompt fails).
SelectGroup ==
    /\ pc = "select"
    /\ \/ /\ \E i \in 1..Len(groups) : group_idx' = i
          /\ pc' = "dates"
          /\ err' = err
       \/ /\ group_idx' = group_idx
          /\ pc' = "failed"
          /\ err' = "select"
    /\ UNCHANGED <<groupVars, dateVars, streamVars, timeVars, envVars>>

\* The dates a user may give: later than the oldest timestamp, so that every
\* window can have a message older than it.
Dates == 1..MaxTime

\* start_date, from the argument or the prompt; the prompt may fail.
ChooseStartDate ==
    /\ pc = "dates"
    /\ \/ /\ \E s \in Dates : start_date' = s
          /\ pc' = "end_date"
          /\ err' = err
       \/ /\ start_date' = start_date
          /\ pc' = "failed"
          /\ err' = "prompt"
    /\ UNCHANGED <<groupVars, group_idx, end_date, streamVars, timeVars, envVars>>

\* end_date, bound after start_date, from the argument or the prompt; the
\* prompt may fail with start_date already bound.
ChooseEndDate ==
    /\ pc = "end_date"
    /\ \/ /\ \E e \in Dates : end_date' = e
          /\ pc' = "get_messages"
          /\ err' = err
       \/ /\ end_date' = end_date
          /\ pc' = "failed"
          /\ err' = "prompt"
    /\ UNCHANGED <<groupVars, group_idx, start_date, streamVars, timeVars, envVars>>

\* get_messages(end_date.to_utc(), start_date.to_utc(), group.id)
newest == end_date
oldest == start_date

\* ------------------------------------------------- client.rs: get_messages
\* `if newest <= oldest { bail!(..) }` (variants: equal dates accepted; no check)
WindowRejectedStrict(n, o) == n < o
WindowRejectedNever(n, o) == FALSE
WindowRejected(n, o) == n <= o

\* The call itself: validates the window, then returns the stream unstarted.
GetMessages ==
    /\ pc = "get_messages"
    /\ IF WindowRejected(newest, oldest)
       THEN /\ pc' = "failed"
            /\ err' = "validation"
            /\ UNCHANGED <<st, before_id>>
       ELSE /\ pc' = "stream"
            /\ err' = err
            /\ st' = "ready"
            /\ before_id' = None
    /\ UNCHANGED <<groupVars, group_idx, dateVars, messages_page, idx, delivered,
                   fetches, pages, inFlight, sleeps, sleepsDone,
                   timeVars, envVars>>

\* The generator of try_stream! runs only inside a poll of messages.next()
\* (variant: it runs on its own).
PolledAlways == TRUE
Polled == pc = "next"

\* main: `messages.next().await`, the consumer asks for the next item.
PollNext ==
    /\ pc = "stream"
    /\ pc' = "next"
    /\ UNCHANGED <<err, groupVars, group_idx, dateVars, streamVars, timeVars, envVars>>

\* client.get(.., ("before_id", before_id)) is sent.
FetchStart ==
    /\ Polled
    /\ st = "ready"
    /\ st' = "fetching"
    /\ fetches' = Append(fetches, [before_id |-> before_id, gap |-> sinceFetch,
                                   started |-> Len(sleeps), slept |-> sleepsDone,
                                   pc |-> pc])
    /\ inFlight' = inFlight + 1
    /\ sinceFetch' = 0
    /\ UNCHANGED <<pc, err, groupVars, group_idx, dateVars, before_id, messages_page,
                   idx, delivered, pages, sleeps, sleepsDone, sleepLeft, envVars>>

\* `if before_id.is_none() { return; }` (variant: the return left out)
PageEndsStreamNever(b) == FALSE
PageEndsStream(b) == b = None

\* The response arrives and decodes: the cursor moves to the page's last
\* message; an empty page ends the stream, and with it main's loop.
FetchOk ==
    /\ Polled
    /\ st = "fetching"
    /\ \E n \in PageSizes(before_id) :
         LET p == GroupMessagesPage(before_id, n)
         IN /\ pages' = Append(pages, p)
            /\ inFlight' = inFlight - 1
            /\ before_id' = next_page_before_id(p)
            /\ IF PageEndsStream(before_id')
               THEN /\ st' = "ended"
                    /\ pc' = "done"
                    /\ UNCHANGED <<messages_page, idx>>
               ELSE /\ st' = "iterating"
                    /\ pc' = pc
                    /\ messages_page' = p
                    /\ idx' = 1
    /\ UNCHANGED <<err, groupVars, group_idx, dateVars, delivered, fetches, sleeps,
                   sleepsDone, timeVars, envVars>>

\* A failed fetch that is retried instead of reported (not what the code does).
FetchErrRetry ==
    /\ Polled
    /\ st = "fetching"
    /\ inFlight' = inFlight - 1
    /\ st' = "ready"
    /\ UNCHANGED <<pc, err, groupVars, group_idx, dateVars, before_id, messages_page,
                   idx, delivered, fetches, pages, sleeps, sleepsDone, timeVars, envVars>>

\* The request or the decoding fails: `.await?` yields the error and ends the
\* stream; main's `message?` returns it.
FetchErr ==
    /\ Polled
    /\ st = "fetching"
    /\ inFlight' = inFlight - 1
    /\ st' = "ended"
    /\ delivered' = Append(delivered, [ok |-> FALSE, id |-> None])
    /\ pc' = "failed"
    /\ err' = "fetch"
    /\ UNCHANGED <<groupVars, group_idx, dateVars, before_id, messages_page, idx,
                   fetches, pages, sleeps, sleepsDone, timeVars, envVars>>

\* The two comparisons of the for loop (variant: `newest` exclusive).
ClassifyExclusive(t, o, n) ==
    IF t < o THEN "Before" ELSE IF t >= n THEN "After" ELSE "Inside"
Classify(t, o, n) ==
    IF t < o THEN "Before" ELSE IF t > n THEN "After" ELSE "Inside"

InLoop == /\ Polled
          /\ st = "iterating"
          /\ idx <= Len(messages_page)

\* `if message.created_at < oldest { return; }`
ReturnBefore ==
    /\ InLoop
    /\ Classify(messages_page[idx].created_at, oldest, newest) = "Before"
    /\ st' = "ended"
    /\ pc' = "done"
    /\ UNCHANGED <<err, groupVars, group_idx, dateVars, before_id, messages_page, idx,
                   delivered, fetches, pages, inFlight, sleeps, sleepsDone, timeVars,
                   envVars>>

\* `if message.created_at > newest { continue; }`
SkipAfter ==
    /\ InLoop
    /\ Classify(messages_page[idx].created_at, oldest, newest) = "After"
    /\ idx' = idx + 1
    /\ UNCHANGED <<pc, err, groupVars, group_idx, dateVars, st, before_id,
                   messages_page, delivered, fetches, pages, inFlight, sleeps,
                   sleepsDone, timeVars, envVars>>

\* `yield message;`: the poll returns the message to main's loop body.
YieldMessage ==
    /\ InLoop
    /\ Classify(messages_page[idx].created_at, oldest, newest) = "Inside"
    /\ delivered' = Append(delivered, [ok |-> TRUE, id |-> messages_page[idx].id])
    /\ idx' = idx + 1
    /\ pc' = "body"
    /\ UNCHANGED <<err, groupVars, group_idx, dateVars, st, before_id, messages_page,
                   fetches, pages, inFlight, sleeps, sleepsDone, timeVars, envVars>>

\* The for loop is over: tokio::time::sleep(Duration::from_secs(1)) starts.
SleepStart ==
    /\ Polled
    /\ st = "iterating"
    /\ idx > Len(messages_page)
    /\ st' = "sleeping"
    /\ sleeps' = Append(sleeps, [pc |-> pc])
    /\ sleepLeft' = SleepSecs
    /\ UNCHANGED <<pc, err, groupVars, group_idx, dateVars, before_id, messages_page,
                   idx, delivered, fetches, pages, inFlight, sleepsDone, sinceFetch,
                   envVars>>

\* The sleep future is ready once its duration has passed (variant: at once).
SleepElapsedAtOnce(left) == TRUE
SleepElapsed(left) == left = 0

\* `.await` of the sleep returns and the loop starts over.
SleepDone ==
    /\ Polled
    /\ st = "sleeping"
    /\ SleepElapsed(sleepLeft)
    /\ st' = "ready"
    /\ sleepsDone' = sleepsDone + 1
    /\ sleepLeft' = 0
    /\ UNCHANGED <<pc, err, groupVars, group_idx, dateVars, before_id, messages_page,
                   idx, delivered, fetches, pages, inFlight, sleeps, sinceFetch, envVars>>

\* One second passes while the process runs.
Tick ==
    /\ pc \notin {"done", "failed"}
    /\ sinceFetch < SleepSecs \/ (st = "sleeping" /\ sleepLeft > 0)
    /\ sinceFetch' = Min(sinceFetch + 1, SleepSecs)
    /\ sleepLeft' = IF st = "sleeping" THEN Max(sleepLeft - 1, 0) ELSE sleepLeft
    /\ UNCHANGED <<pc, err, groupVars, group_idx, dateVars, streamVars, envVars>>

\* main's loop body: the attachments of the message are saved, or an I/O
\* error returns from main and the stream is never polled again.
BodyDone ==
    /\ pc = "body"
    /\ pc' = "stream"
    /\ UNCHANGED <<err, groupVars, group_idx, dateVars, streamVars, timeVars, envVars>>

BodyFail ==
    /\ pc = "body"
    /\ pc' = "failed"
    /\ err' = "download"
    /\ UNCHANGED <<groupVars, group_idx, dateVars, streamVars, timeVars, envVars>>

\* ------------------------------------------------------- specifications
InitRun ==
    /\ err = ""
    /\ groups = <<>>
    /\ page = 1
    /\ groupPages = <<>>
    /\ group_idx = 0
    /\ start_date = NoDate
    /\ end_date = NoDate
    /\ st = "none"
    /\ before_id = None
    /\ messages_page = <<>>
    /\ idx = 1
    /\ delivered = <<>>
    /\ fetches = <<>>
    /\ pages = <<>>
    /\ inFlight = 0
    /\ sleeps = <<>>
    /\ sleepsDone = 0
    /\ sleepLeft = 0
    /\ sinceFetch = 0

\* A download run, for any small account and any chat history.
Init ==
    /\ pc = "config"
    /\ srcGroups \in 0..MaxSrcGroups
    /\ history \in Histories
    /\ InitRun

Next ==
    \/ ReadConfig
    \/ GetAllGroupsRequest
    \/ GetAllGroupsPage
    \/ GetAllGroupsError
    \/ SelectGroup
    \/ ChooseStartDate
    \/ ChooseEndDate
    \/ GetMessages
    \/ PollNext
    \/ FetchStart
    \/ FetchOk
    \/ FetchErr
    \/ ReturnBefore
    \/ SkipAfter
    \/ YieldMessage
    \/ SleepStart
    \/ SleepDone
    \/ Tick
    \/ BodyDone
    \/ BodyFail

Spec == Init /\ [][Next]_vars

\* get_all_groups alone, for accounts on both sides of the cap.
InitGroups ==
    /\ pc = "groups"
    /\ srcGroups \in 0..MaxGroups
    /\ history = <<>>
    /\ InitRun

NextGroups ==
    \/ GetAllGroupsRequest
    \/ GetAllGroupsPage
    \/ GetAllGroupsError

SpecGroups == InitGroups /\ [][NextGroups]_vars

\* The retrieval alone: main has listed the one group of the account and
\* selected it (main.rs:99), and goes on to the dates and to get_messages.
InitStream ==
    /\ pc = "dates"
    /\ err = ""
    /\ srcGroups = 1
    /\ groups = <<1>>
    /\ page = 2
    /\ groupPages = <<1, 2>>
    /\ group_idx = 1
    /\ history \in Histories
    /\ start_date = NoDate
    /\ end_date = NoDate
    /\ st = "none"
    /\ before_id = None
    /\ messages_page = <<>>
    /\ idx = 1
    /\ delivered = <<>>
    /\ fetches = <<>>
    /\ pages = <<>>
    /\ inFlight = 0
    /\ sleeps = <<>>
    /\ sleepsDone = 0
    /\ sleepLeft = 0
    /\ sinceFetch = 0

\* What the generator does between two suspensions of the for loop.
ForLoop == ReturnBefore \/ SkipAfter \/ YieldMessage \/ SleepStart

NextStream ==
    \/ ChooseStartDate
    \/ ChooseEndDate
    \/ GetMessages
    \/ PollNext
    \/ FetchStart
    \/ FetchOk
    \/ FetchErr
    \/ ReturnBefore
    \/ SkipAfter
    \/ YieldMessage
    \/ SleepStart
    \/ SleepDone
    \/ Tick
    \/ BodyDone
    \/ BodyFail

\* The scheduling the retrieval runs under: main keeps pulling (it polls
\* again and its loop body returns), the runtime resumes the generator
\* whenever it can run, every request is answered (with a page or an error)
\* and time passes.
StreamFairness ==
    /\ WF_vars(PollNext)
    /\ WF_vars(BodyDone \/ BodyFail)
    /\ WF_vars(FetchStart \/ ForLoop \/ SleepDone)
    /\ WF_vars(FetchOk \/ FetchErr)
    /\ WF_vars(Tick)

SpecStream == InitStream /\ [][NextStream]_vars /\ StreamFairness

\* ------------------------------------------------------------ vocabulary
Ids(ms) == [i \in 1..Len(ms) |-> ms[i].id]
IsOk(item) == item.ok
Emitted == Ids(SelectSeq(delivered, IsOk))
InWindow(m) == oldest <= m.created_at /\ m.created_at <= newest
IsBefore(m) == m.created_at < oldest
IsAfter(m) == m.created_at > newest
Sorted(h) == \A i \in 1..(Len(h) - 1) : h[i].created_at >= h[i + 1].created_at
IsPrefix(a, b) == Len(a) <= Len(b) /\ a = SubSeq(b, 1, Len(a))
\* Position of the first message older than the window, Len + 1 when none.
FirstBefore(h) ==
    LET olds == {i \in 1..Len(h) : IsBefore(h[i])}
    IN IF olds = {} THEN Len(h) + 1 ELSE CHOOSE i \in olds : \A j \in olds : i <= j
\* What a whole run has to emit: the in-window messages ahead of that position.
Expected == Ids(SelectSeq(SubSeq(history, 1, FirstBefore(history) - 1), InWindow))
\* Fetches that were answered with an error.
FailedFetches == Len(fetches) - Len(pages) - inFlight
WindowChosen == start_date # NoDate /\ end_date # NoDate

\* ----------------------------------------------------------------- claims

\* C1: over a whole run (the stream ended without an error) the emitted
\* messages are exactly the in-window messages that precede the first message
\* older than `oldest`, in history order and without repetition; for a history
\* sorted newest first these are exactly the messages with
\* oldest <= created_at <= newest.  Until then the emitted messages are a
\* prefix of that sequence.
C1_EmitsExactlyTheWindow ==
    st # "none" =>
        /\ IsPrefix(Emitted, Expected)
        /\ \A i, j \in 1..Len(Emitted) : i # j => Emitted[i] # Emitted[j]
        /\ pc = "done" =>
             /\ Emitted = Expected
             /\ Sorted(history) => Emitted = Ids(SelectSeq(history, InWindow))

\* A sorted history with a message newer than the window, and a last page
\* that holds a message created exactly at `oldest` followed by an older one.
C1_Witness ==
    /\ pc = "done"
    /\ Sorted(history)
    /\ \E i \in 1..Len(history) : IsAfter(history[i])
    /\ Len(pages) >= 2
    /\ Len(Last(pages)) = 2
    /\ Last(pages)[1].created_at = oldest
    /\ IsBefore(Last(pages)[2])
    /\ Emitted = <<Last(pages)[1].id>>

\* C2: once get_messages was called with newest <= oldest it has failed with
\* the validation error, no stream exists and no page fetch was started.
C2_InvalidWindowFails ==
    (WindowChosen /\ newest <= oldest /\ pc # "get_messages") =>
        /\ pc = "failed"
        /\ err = "validation"
        /\ st = "none"
        /\ fetches = <<>>
        /\ inFlight = 0

C2_Witness ==
    /\ pc = "failed"
    /\ err = "validation"
    /\ newest = oldest
    /\ fetches = <<>>

\* C3: a page that is empty, or that holds a message older than `oldest`, is
\* the last page ever fetched: it is the last of the pages received and the
\* number of fetches started equals its position.
C3_NoFetchAfterTermination ==
    \A k \in 1..Len(pages) :
        (pages[k] = <<>> \/ \E i \in 1..Len(pages[k]) : IsBefore(pages[k][i])) =>
            /\ k = Len(pages)
            /\ Len(fetches) = k
            /\ st \in {"iterating", "ended"}

\* The fourth page is the first empty one and the run made four fetches.
C3_Witness ==
    /\ pc = "done"
    /\ Len(pages) >= 3
    /\ Last(pages) = <<>>
    /\ \A k \in 1..(Len(pages) - 1) : pages[k] # <<>>
    /\ Len(fetches) = Len(pages)

\* C4: the first fetch has no cursor; fetch k+1 uses the identifier of the
\* last message of page k; a page all of whose messages are newer than
\* `newest` emits nothing, moves the cursor and does not end the stream.
C4_CursorIsLastOfPreviousPage ==
    /\ fetches # <<>> => fetches[1].before_id = None
    /\ \A k \in 1..(Len(fetches) - 1) :
          /\ pages[k] # <<>>
          /\ fetches[k + 1].before_id = Last(pages[k]).id
    /\ \A k \in 1..Len(pages) :
          (pages[k] # <<>> /\ \A i \in 1..Len(pages[k]) : IsAfter(pages[k][i])) =>
              /\ \A i \in 1..Len(pages[k]) :
                    \A j \in 1..Len(Emitted) : Emitted[j] # pages[k][i].id
              /\ (k = Len(pages) /\ Len(fetches) = k) =>
                    /\ st \in {"iterating", "sleeping", "ready"}
                    /\ before_id = Last(pages[k]).id

\* A first page of two messages, both newer than the window, then a second
\* fetch from the second message's identifier that brings an emitted message.
C4_Witness ==
    /\ Len(pages) >= 2
    /\ Len(pages[1]) = 2
    /\ \A i \in 1..2 : IsAfter(pages[1][i])
    /\ fetches[2].before_id = pages[1][2].id
    /\ Emitted # <<>>

\* C5: when a page fetch has failed, it is the only failed fetch, nothing is
\* in flight, the error is the last item main received and the only error,
\* the items before it are all the in-window messages of the pages received,
\* and the stream has ended.
C5_FetchErrorIsFinal ==
    /\ \A i \in 1..(Len(delivered) - 1) : delivered[i].ok
    /\ FailedFetches > 0 =>
          /\ FailedFetches = 1
          /\ inFlight = 0
          /\ delivered # <<>>
          /\ ~Last(delivered).ok
          /\ Emitted = Ids(SelectSeq(Flatten(pages), InWindow))
          /\ st = "ended"
          /\ pc = "failed"
          /\ err = "fetch"

\* The third fetch fails after two pages that each brought a message.
C5_Witness ==
    /\ FailedFetches = 1
    /\ Len(pages) = 2
    /\ Len(delivered) >= 3
    /\ ~Last(delivered).ok

\* C6: the first fetch starts with no sleep started before it; every later
\* fetch k starts when exactly k-1 sleeps were started and all of them have
\* elapsed, at least SleepSecs after the previous fetch started.
C6_FetchesAreRateLimited ==
    \A k \in 1..Len(fetches) :
        /\ fetches[k].started = k - 1
        /\ fetches[k].slept = k - 1
        /\ k > 1 => fetches[k].gap >= SleepSecs

\* Three fetches, the first of them at the very start of the run.
C6_Witness ==
    /\ Len(fetches) >= 3
    /\ fetches[1].gap = 0
    /\ fetches[3].gap >= SleepSecs

\* C7: every fetch and every sleep was started while main was awaiting
\* messages.next(); whenever main is not awaiting it, no fetch is in flight
\* and no sleep is running; there is never more than one fetch in flight.
C7_PullDriven ==
    /\ inFlight \in {0, 1}
    /\ \A k \in 1..Len(fetches) : fetches[k].pc = "next"
    /\ \A k \in 1..Len(sleeps) : sleeps[k].pc = "next"
    /\ pc # "next" => inFlight = 0 /\ st \notin {"fetching", "sleeping"}

\* main stopped in the body of its loop, in the middle of a page, with
\* history left to fetch: one fetch was made and none follows.
C7_Witness ==
    /\ pc = "failed"
    /\ err = "download"
    /\ st = "iterating"
    /\ idx <= Len(messages_page)
    /\ before_id < Len(history)
    /\ Len(fetches) = 1

\* C8, as claimed: a window whose end is not later than its start is
\* rejected before any network activity of the run.
C8_RejectedBeforeAnyNetwork ==
    (WindowChosen /\ end_date <= start_date) =>
        /\ groupPages = <<>>
        /\ fetches = <<>>

\* C8, amended: such a window is rejected before any message page is
\* fetched; the requests of the group listing have been made by then.
C8_RejectedBeforeAnyPageFetch ==
    (WindowChosen /\ end_date <= start_date) =>
        /\ fetches = <<>>
        /\ pages = <<>>
        /\ delivered = <<>>
        /\ groupPages # <<>>
        /\ pc \in {"get_messages", "failed"}
        /\ pc = "failed" => err = "validation"

C8_Witness ==
    /\ pc = "failed"
    /\ err = "validation"
    /\ end_date < start_date
    /\ Len(groupPages) >= 2
    /\ fetches = <<>>

\* C9, as claimed: get_all_groups returns at most 100 groups.
C9_AtMostCapGroups ==
    pc = "select" => Len(groups) <= GroupCap

\* C10: pages 1, 2, 3, .. are requested in order, each once; the groups
\* returned are appended in order; a page is requested only while no page was
\* empty and the total is at most 100, and the loop stops at the first empty page or the
\* first total above 100; an error returns no groups.
C10_GroupPagination ==
    LET k == Len(groupPages)
        Total(j) == Min(srcGroups, j * PerPage)
    IN /\ groupPages = [i \in 1..k |-> i]
       /\ groups = [i \in 1..Len(groups) |-> i]
       /\ pc = "groups" =>
             /\ page = k + 1
             /\ Len(groups) = Total(k)
             /\ \A j \in 1..k : GroupsResponse(j) # <<>> /\ Total(j) <= GroupCap
       /\ pc = "groups_wait" =>
             /\ k >= 1
             /\ page = k
             /\ Len(groups) = Total(k - 1)
             /\ \A j \in 1..(k - 1) : GroupsResponse(j) # <<>> /\ Total(j) <= GroupCap
       /\ pc = "select" =>
             /\ k >= 1
             /\ Len(groups) = Total(k)
             /\ GroupsResponse(k) = <<>> \/ Len(groups) > GroupCap
             /\ \A j \in 1..(k - 1) : GroupsResponse(j) # <<>> /\ Total(j) <= GroupCap
       /\ pc = "failed" => groups = <<>> /\ k >= 1

\* The listing stopped above the cap although the account has more groups.
C10_Witness ==
    /\ pc = "select"
    /\ Len(groups) > GroupCap
    /\ srcGroups > Len(groups)
    /\ Len(groupPages) = 11

\* C11: once the stream exists the run terminates, with the end of the
\* stream or with an error, and no two fetches of it use the same cursor.
StreamOver == pc \in {"done", "failed"}
NoCursorTwice ==
    \A i, j \in 1..Len(fetches) : i # j => fetches[i].before_id # fetches[j].before_id
C11_StreamTerminates ==
    /\ []NoCursorTwice
    /\ (st # "none") ~> StreamOver

\* A run that went through the whole history page by page, one fetch per
\* message and a last one for the empty page, and ended.
C11_Witness ==
    /\ pc = "done"
    /\ Len(history) >= 3
    /\ Len(fetches) = Len(history) + 1
    /\ Last(pages) = <<>>
    /\ NoCursorTwice

====
